---------------------------- MODULE Spec2Model ----------------------------
(***************************************************************************)
(* A model of pyCGM/metrics.py: the per-subject wrappers all_metrics,      *)
(* hypoglycemic_episodes and percent_missing, together with the two        *)
(* helper routines they call (helper.helper_hypo_episodes and              *)
(* helper.helper_missing).  helper.py is not part of the source tree, so   *)
(* the two helpers are modelled from the design document (sections 4.1,    *)
(* 4.3 and 4.4); everything else is translated from metrics.py.            *)
(*                                                                         *)
(* Time is counted in minutes from an arbitrary origin; glucose values are *)
(* tenths of mmol/L (39 is 3.9 mmol/L), so that thresholds stay integers.  *)
(*                                                                         *)
(* Scope: frames with an ID column, interpolate=False.  Where the design   *)
(* document leaves the detector open, the model takes the reading under    *)
(* which its scenarios come out: a run of samples extends from its first   *)
(* sample to the first sample after it, so an episode closed by a recovery *)
(* ends at the first sample of the recovery run; an episode cut off by the *)
(* end of its Segment with no recovery sample ends at the Segment's last   *)
(* sample.  Severity follows section 4.4 (Level2 once any value is below   *)
(* the level-2 threshold).  Percent missing is kept as the exact pair      *)
(* (missing slots, total slots) in place of a float.                       *)
(***************************************************************************)
EXTENDS Integers, Sequences, FiniteSets, TLC

VARIABLES
    df,                  \* the caller's DataFrame: a sequence of rows
    df_in,               \* the DataFrame as the caller passed it
    interval_size,       \* the expected sampling interval, in minutes
    exercise_thresholds, \* whether the exercise threshold set is used
    by_day,              \* all_metrics' by_day switch
    window,              \* percent_missing's (start_datetime, end_datetime)
    det,                 \* the episode detector's state (one series)
    seen,                \* timestamps of the samples the detector has read
    event,               \* the transition the detector took last
    result,              \* what the operation returned
    pc                   \* "ready" before the call, then the call that was made

vars == <<df, df_in, interval_size, exercise_thresholds, by_day, window,
          det, seen, event, result, pc>>

---------------------------------------------------------------------------
(* Bounds of the model. *)

\* number of samples fed to the detector in the streaming specification
MaxSamples == 7

\* longest series of subject "a" in the frames hypoglycemic_episodes is run on
MaxLen == 6

\* longest run of equal readings in the run-shaped series
MaxRun == 4

\* number of five-minute grid points after the first in percent_missing's frames
MaxGrid == 5

\* number of rows of the frames all_metrics is run on
MaxRows == 3

---------------------------------------------------------------------------
(* Program constants. *)

\* thirt_mins = time(minutes=30)
thirt_mins == 30

\* fift_mins = time(minutes=15)
fift_mins == 15

\* level-1 hypoglycemia: glc < 3.9 mmol/L
Level1 == 39

\* level-2 hypoglycemia: glc < 3.0 mmol/L
Level2 == 30

\* exercise threshold: glc < 7 mmol/L
ExerciseLow == 70

\* gap tolerance factor of the segmenter (default 1x)
tolerance == 1

minimum_episode_duration == fift_mins

merge_gap_minutes == fift_mins

\* Python's None, for an argument that was not given
None == -1

\* a missing glucose reading
NaN == -2

---------------------------------------------------------------------------
(* helper.helper_hypo_episodes: the episode detector (design 4.3, 4.4).    *)

Threshold(exercise) == IF exercise THEN ExerciseLow ELSE Level1

Min(a, b) == IF a <= b THEN a ELSE b

\* The detector before its first sample: state ABOVE, no previous sample.
DetInit == [mode |-> "ABOVE", start |-> None, min |-> None, rec |-> None,
            last |-> None]

\* An Episode as it would be with its two instants exchanged.
EpisodeSwapped(start, end, min_value) ==
    [start |-> end, end |-> start, min_value |-> min_value,
     severity |-> IF min_value < Level2 THEN "Level2" ELSE "Level1"]

\* An Episode (design section 3); its duration is end - start.
Episode(start, end, min_value) ==
    [start |-> start, end |-> end, min_value |-> min_value,
     severity |-> IF min_value < Level2 THEN "Level2" ELSE "Level1"]

Duration(e) == e.end - e.start

\* Finalize as it would be without the minimum-duration rule.
FinalizeAny(start, end, min_value) == <<Episode(start, end, min_value)>>

\* Finalize: the Episode is reported only if it lasted the minimum duration.
Finalize(start, end, min_value) ==
    IF end - start >= minimum_episode_duration
    THEN <<Episode(start, end, min_value)>>
    ELSE <<>>

\* Whether sample time t opens a new Segment after a detector state d.
NewSegment(d, t, gap_size) ==
    d.last # None /\ t - d.last > gap_size * tolerance

\* The excursion an open episode covers when it ends at `end`.
Excursion(d, end) == <<[start |-> d.start, end |-> end]>>

\* End of a Segment: an open episode ends at the start of its pending
\* recovery run, or else at the Segment's last sample.
SegmentEnd(d) == IF d.rec # None THEN d.rec ELSE d.last

EndOfSegment(d) ==
    IF d.mode = "IN_EPISODE"
    THEN Finalize(d.start, SegmentEnd(d), d.min)
    ELSE <<>>

EndOfSegmentClosed(d) ==
    IF d.mode = "IN_EPISODE" THEN Excursion(d, SegmentEnd(d)) ELSE <<>>

\* One sample (t, v) read in state d, inside d's Segment.  Returns the next
\* state, the Episodes finalized, the excursion closed (reported or not) and
\* the name of the transition.
InSegment(d, t, v, thr) ==
    LET low == v < thr
        open == [mode |-> "IN_EPISODE", start |-> t, min |-> v, rec |-> None,
                 last |-> t]
        above == [mode |-> "ABOVE", start |-> None, min |-> None,
                  rec |-> None, last |-> t]
    IN  IF d.mode = "ABOVE"
        THEN IF low
             THEN [d |-> open, out |-> <<>>, closed |-> <<>>, ev |-> "open"]
             ELSE [d |-> above, out |-> <<>>, closed |-> <<>>, ev |-> "above"]
        ELSE IF d.rec = None
        THEN IF low
             THEN [d |-> [d EXCEPT !.min = Min(d.min, v), !.last = t],
                   out |-> <<>>, closed |-> <<>>, ev |-> "extend"]
             ELSE [d |-> [d EXCEPT !.rec = t, !.last = t],
                   out |-> <<>>, closed |-> <<>>, ev |-> "recover"]
        ELSE IF t - d.rec >= merge_gap_minutes
        THEN [d |-> IF low THEN open ELSE above,
              out |-> Finalize(d.start, d.rec, d.min),
              closed |-> Excursion(d, d.rec),
              ev |-> IF low THEN "split" ELSE "close"]
        ELSE IF low
        THEN [d |-> [d EXCEPT !.min = Min(d.min, v), !.rec = None, !.last = t],
              out |-> <<>>, closed |-> <<>>, ev |-> "bridge"]
        ELSE [d |-> [d EXCEPT !.last = t], out |-> <<>>, closed |-> <<>>,
              ev |-> "wait"]

\* The gap size handed to the helper as it would be if the module's
\* fifteen-minute constant were passed in place of the caller's interval.
helper_gap_size_fift(interval) == fift_mins

\* hypoglycemic_episodes hands the caller's interval to the helper:
\* gap_size=interval_size.
helper_gap_size(interval) == interval

\* One sample read by the detector: a gap above the tolerance first ends the
\* current Segment, and the sample is then read by a fresh ABOVE state.
Step(d, t, v, gap_size, exercise) ==
    IF NewSegment(d, t, gap_size)
    THEN LET r == InSegment([DetInit EXCEPT !.last = d.last], t, v,
                            Threshold(exercise))
         IN  [d |-> r.d, out |-> EndOfSegment(d) \o r.out,
              closed |-> EndOfSegmentClosed(d),
              ev |-> IF r.ev = "open" THEN "gap_open" ELSE "gap"]
    ELSE InSegment(d, t, v, Threshold(exercise))

---------------------------------------------------------------------------
(* DataFrames.  A frame is a sequence of rows [ID, time, glc]; an ID is a  *)
(* string, kept as the sequence of its characters; a time is a parsed      *)
(* Timestamp ("ts"), a parseable string ("str") or an unparseable string   *)
(* ("bad"), with its instant t in minutes; glc is a reading or NaN.        *)

Row(id, time, glc) == [ID |-> id, time |-> time, glc |-> glc]

Timestamp(t) == [repr |-> "ts", t |-> t]

\* set(df['ID'].values)
IDs(frame) == {frame[i].ID : i \in DOMAIN frame}

\* df[df['ID'] == ID]
Group(frame, id) == SelectSeq(frame, LAMBDA r : r.ID = id)

\* SeriesValidator (design 4.1): rows without a value are dropped.
DropNaN(rows) == SelectSeq(rows, LAMBDA r : r.glc # NaN)

RECURSIVE InsertByTime(_, _)
\* r placed after every row of the sorted sequence that is not later than it
InsertByTime(r, sorted) ==
    IF sorted = <<>> \/ sorted[Len(sorted)].time.t <= r.time.t
    THEN Append(sorted, r)
    ELSE Append(InsertByTime(r, SubSeq(sorted, 1, Len(sorted) - 1)),
                sorted[Len(sorted)])

RECURSIVE SortByTime(_)
\* SeriesValidator: a stable sort by timestamp, ascending.
SortByTime(rows) ==
    IF rows = <<>> THEN <<>>
    ELSE InsertByTime(rows[Len(rows)], SortByTime(SubSeq(rows, 1, Len(rows) - 1)))

\* SeriesValidator: of rows with the same timestamp the last one is kept.
DedupLast(sorted) ==
    LET keep == {i \in DOMAIN sorted :
                   i = Len(sorted) \/ sorted[i + 1].time.t # sorted[i].time.t}
        pick[i \in 0..Len(sorted)] ==
            IF i = 0 THEN <<>>
            ELSE IF i \in keep THEN Append(pick[i - 1], sorted[i])
            ELSE pick[i - 1]
    IN  pick[Len(sorted)]

\* SeriesValidator: whether some timestamp cannot be parsed (ParseError).
HasBadTime(rows) == \E i \in DOMAIN rows : rows[i].time.repr = "bad"

\* The Series of one subject's rows: strictly increasing by timestamp.
Validate(rows) == DedupLast(SortByTime(DropNaN(rows)))

RECURSIVE DetectFrom(_, _, _, _, _, _)
\* The detector run over samples i.. of a Series from state d, with the
\* Episodes acc finalized so far; the Series' end ends its last Segment.
DetectFrom(series, i, d, acc, gap, exercise) ==
    IF i > Len(series)
    THEN acc \o EndOfSegment(d)
    ELSE LET r == Step(d, series[i].time.t, series[i].glc, gap, exercise)
         IN  DetectFrom(series, i + 1, r.d, acc \o r.out, gap, exercise)

\* Overview mode: the Episodes reduced to counts and total duration.
RECURSIVE TotalDuration(_)
TotalDuration(eps) ==
    IF eps = <<>> THEN 0
    ELSE Duration(eps[1]) + TotalDuration(Tail(eps))

Overview(eps) ==
    [number_hypos |-> Len(eps),
     number_lv2_hypos |-> Len(SelectSeq(eps, LAMBDA e : e.severity = "Level2")),
     total_time |-> TotalDuration(eps)]

\* helper.helper_hypo_episodes on one subject's rows (interpolate=False).
helper_hypo_episodes(rows, gap, breakdown, exercise) ==
    LET eps == DetectFrom(Validate(rows), 1, DetInit, <<>>, gap, exercise)
    IN  IF breakdown THEN eps ELSE Overview(eps)

\* hypoglycemic_episodes as it would be if the helper were applied to the
\* whole frame, as in the branch for frames without an ID column.
hypoglycemic_episodes_ungrouped(frame, interval, breakdown, exercise) ==
    IF HasBadTime(frame) THEN [error |-> "ParseError", rows |-> <<>>]
    ELSE [error |-> "none", rows |-> [id \in IDs(frame) |->
                      helper_hypo_episodes(frame, helper_gap_size(interval),
                                           breakdown, exercise)]]

\* hypoglycemic_episodes for a frame with an ID column: the helper applied
\* to each ID's group (df.groupby('ID').apply).  The dropna(inplace=True) of
\* line 280 acts on a copy of three columns and leaves df as it was.
hypoglycemic_episodes(frame, interval, breakdown, exercise) ==
    IF HasBadTime(frame) THEN [error |-> "ParseError", rows |-> <<>>]
    ELSE [error |-> "none", rows |-> [id \in IDs(frame) |->
                      helper_hypo_episodes(Group(frame, id),
                                           helper_gap_size(interval),
                                           breakdown, exercise)]]

---------------------------------------------------------------------------
(* helper.helper_missing and percent_missing (design 4.3).                 *)

SetMin(S) == CHOOSE x \in S : \A y \in S : x <= y

SetMax(S) == CHOOSE x \in S : \A y \in S : x >= y

\* ceil(a / b) for a >= 0, b > 0
CeilDiv(a, b) == (a + b - 1) \div b

\* the instants of the rows that hold a reading
ReadingTimes(rows) ==
    {rows[i].time.t : i \in {j \in DOMAIN rows : rows[j].glc # NaN}}

\* helper.helper_missing on one subject's rows: the numbers of missing and
\* of expected slots of the window; percent missing is missing / total.
\* Slot k of the window is [start + k * gap, start + (k + 1) * gap).
helper_missing(rows, gap, start_time, end_time) ==
    LET times == ReadingTimes(rows)
        start == IF start_time = None THEN SetMin(times) ELSE start_time
        end == IF end_time = None THEN SetMax(times) ELSE end_time
        total == CeilDiv(end - start, gap)
        present == {(t - start) \div gap : t \in {u \in times : u >= start}}
                   \cap 0..(total - 1)
    IN  [missing |-> total - Cardinality(present), total |-> total]

\* pd.to_datetime(df['time']): unparseable strings raise, parseable ones
\* become Timestamps.
to_datetime(frame) ==
    [i \in DOMAIN frame |-> [frame[i] EXCEPT !.time.repr = "ts"]]

\* percent_missing as it would be if each ID's row were computed from the
\* whole frame instead of the ID's slice.
percent_missing_unsliced(frame, interval, start_datetime, end_datetime) ==
    IF HasBadTime(frame) THEN [error |-> "ParseError", rows |-> <<>>]
    ELSE [error |-> "none", rows |-> [id \in IDs(frame) |->
                      helper_missing(to_datetime(frame), helper_gap_size(interval),
                                     start_datetime, end_datetime)]]

\* percent_missing as it would be if the caller's end_datetime were not
\* handed on to the helper.
percent_missing_no_end(frame, interval, start_datetime, end_datetime) ==
    IF HasBadTime(frame) THEN [error |-> "ParseError", rows |-> <<>>]
    ELSE [error |-> "none", rows |-> [id \in IDs(frame) |->
                      helper_missing(Group(to_datetime(frame), id),
                                     helper_gap_size(interval),
                                     start_datetime, None)]]

\* percent_missing for a frame with an ID column: one row per ID.
percent_missing(frame, interval, start_datetime, end_datetime) ==
    IF HasBadTime(frame) THEN [error |-> "ParseError", rows |-> <<>>]
    ELSE [error |-> "none", rows |-> [id \in IDs(frame) |->
                      helper_missing(Group(to_datetime(frame), id),
                                     helper_gap_size(interval),
                                     start_datetime, end_datetime)]]

\* What the call leaves in the caller's frame: df['time'] is assigned the
\* parsed column, unless parsing raised.
percent_missing_frame(frame) ==
    IF HasBadTime(frame) THEN frame ELSE to_datetime(frame)

---------------------------------------------------------------------------
(* The detector run sample by sample over one subject's series.            *)

\* gaps between consecutive samples, in minutes
Gaps == {5, 10, 15}

\* expected sampling intervals, in minutes
Intervals == {5, 10}

\* glucose readings: level 2, level 1, the 3.9 boundary, above 7.0
Glc == {28, 35, 39, 75}

NoEvent == [name |-> "none", closed |-> <<>>]

InitDetector ==
    /\ df = <<>>
    /\ df_in = df
    /\ interval_size \in Intervals
    /\ exercise_thresholds \in BOOLEAN
    /\ by_day = FALSE
    /\ window = <<None, None>>
    /\ det = DetInit
    /\ seen = {}
    /\ event = NoEvent
    /\ result = <<>>
    /\ pc = "ready"

\* The next sample of the series is read.
Sample ==
    /\ pc = "ready"
    /\ Cardinality(seen) < MaxSamples
    /\ \E gap \in Gaps, v \in Glc :
         LET t == IF det.last = None THEN 0 ELSE det.last + gap
             r == Step(det, t, v, helper_gap_size(interval_size), exercise_thresholds)
         IN  /\ det' = r.d
             /\ result' = result \o r.out
             /\ event' = [name |-> r.ev, closed |-> r.closed]
             /\ seen' = seen \cup {t}
    /\ UNCHANGED <<df, df_in, interval_size, exercise_thresholds, by_day, window, pc>>

\* The series ends: its last Segment ends with it.
Finish ==
    /\ pc = "ready"
    /\ result' = result \o EndOfSegment(det)
    /\ event' = [name |-> "end", closed |-> EndOfSegmentClosed(det)]
    /\ det' = [DetInit EXCEPT !.last = det.last]
    /\ pc' = "done"
    /\ UNCHANGED <<df, df_in, interval_size, exercise_thresholds, by_day, window, seen>>

NextDetector == Sample \/ Finish

SpecDetector == InitDetector /\ [][NextDetector]_vars

---------------------------------------------------------------------------
(* hypoglycemic_episodes called on whole frames.                           *)

IdA == <<"a">>

IdB == <<"b">>

\* readings of the frames: level 2, level 1, in range
FrameGlc == {28, 35, 45}

\* rows of subject id sampled every `step` minutes from 0 with readings vals
Regular(id, vals, step) ==
    [i \in DOMAIN vals |-> Row(id, Timestamp((i - 1) * step), vals[i])]

\* n readings, all equal to v
Run(n, v) == [i \in 1..n |-> v]

Reverse(seq) == [i \in DOMAIN seq |-> seq[Len(seq) + 1 - i]]

\* every series of 1..MaxLen readings
AnySeries == UNION {[1..n -> FrameGlc] : n \in 1..MaxLen}

\* two low runs around a high run, with or without a closing high reading
RunShaped ==
    {Run(x, 35) \o Run(y, 45) \o Run(z, 35) \o Run(w, 45) :
       x \in 1..MaxRun, y \in 1..MaxRun, z \in 1..MaxRun, w \in 0..1}

\* a second subject, in range throughout, sampled at subject a's instants
OtherSubject(n) == Regular(IdB, Run(n, 45), 5)

InitEpisodes ==
    /\ \E vals \in AnySeries \cup RunShaped, step \in {5, 10},
          other \in BOOLEAN, reversed \in BOOLEAN :
         LET a == Regular(IdA, vals, step)
             rows == a \o (IF other THEN OtherSubject(Len(vals)) ELSE <<>>)
         IN  df = IF reversed THEN Reverse(rows) ELSE rows
    /\ df_in = df
    /\ interval_size \in Intervals
    /\ exercise_thresholds \in BOOLEAN
    /\ by_day = FALSE
    /\ window = <<None, None>>
    /\ det = DetInit
    /\ seen = {}
    /\ event = NoEvent
    /\ result = <<>>
    /\ pc = "ready"

\* hypoglycemic_episodes(df, interval_size, breakdown=True, ...)
Breakdown ==
    /\ pc = "ready"
    /\ result' = hypoglycemic_episodes(df, interval_size, TRUE, exercise_thresholds)
    /\ pc' = "breakdown"
    /\ UNCHANGED <<df, df_in, interval_size, exercise_thresholds, by_day, window,
                   det, seen, event>>

\* hypoglycemic_episodes(df, interval_size, breakdown=False, ...)
OverviewCall ==
    /\ pc = "ready"
    /\ result' = hypoglycemic_episodes(df, interval_size, FALSE, exercise_thresholds)
    /\ pc' = "overview"
    /\ UNCHANGED <<df, df_in, interval_size, exercise_thresholds, by_day, window,
                   det, seen, event>>

NextEpisodes == Breakdown \/ OverviewCall

SpecEpisodes == InitEpisodes /\ [][NextEpisodes]_vars

---------------------------------------------------------------------------
(* percent_missing called on whole frames.                                 *)

TimeString(t) == [repr |-> "str", t |-> t]

\* the five-minute grid of subject a's possible readings
Grid == {5 * k : k \in 0..MaxGrid}

\* window ends the caller may ask for
Ends == {5 * k : k \in 1..(MaxGrid + 2)}

RECURSIVE RowsOf(_, _, _)
\* the rows of subject id for readings [t -> 0 (no row), a value or NaN],
\* over the instants ts, in time order
RowsOf(id, readings, ts) ==
    IF ts = {} THEN <<>>
    ELSE LET t == SetMin(ts)
             rest == RowsOf(id, readings, ts \ {t})
         IN  IF readings[t] = 0 THEN rest
             ELSE <<Row(id, TimeString(t), readings[t])>> \o rest

\* whether the window of every subject has start <= end once its missing
\* bounds are taken from the subject's readings
WindowOk(frame, start, end) ==
    \A id \in IDs(frame) :
      LET times == ReadingTimes(Group(frame, id))
      IN  /\ times # {}
          /\ (IF start = None THEN SetMin(times) ELSE start)
               <= (IF end = None THEN SetMax(times) ELSE end)

\* four hours on a five-minute grid: a reading at 0 and at 240, and 36 of
\* the 48 slots [5k, 5k + 5), k < 48, holding a reading
ScenarioFrames ==
    {RowsOf(IdA, [t \in {5 * k : k \in 0..48} |->
                    IF (t \div 5) \in dropped THEN 0 ELSE 45],
            {5 * k : k \in 0..48}) :
       dropped \in {{k \in 1..47 : k % 4 = phase} : phase \in 1..3}
                   \cup {o..(o + 11) : o \in 1..36}}

InitMissing ==
    /\ \/ /\ \E readings \in [Grid -> {0, 45, NaN}], other \in BOOLEAN :
               df = RowsOf(IdA, readings, Grid)
                    \o (IF other
                        THEN <<Row(IdB, TimeString(5), 45), Row(IdB, TimeString(15), 45)>>
                        ELSE <<>>)
          /\ interval_size \in Intervals
          /\ window \in ({None, 0, 5} \X ({None} \cup Ends))
       \/ /\ df \in ScenarioFrames
          /\ interval_size = 5
          /\ window = <<None, None>>
    /\ df_in = df
    /\ IdA \in IDs(df)
    /\ WindowOk(df, window[1], window[2])
    /\ exercise_thresholds = FALSE
    /\ by_day = FALSE
    /\ det = DetInit
    /\ seen = {}
    /\ event = NoEvent
    /\ result = <<>>
    /\ pc = "ready"

\* percent_missing(df, interval_size, start_datetime, end_datetime)
PercentMissing ==
    /\ pc = "ready"
    /\ result' = percent_missing(df, interval_size, window[1], window[2])
    /\ df' = percent_missing_frame(df)
    /\ pc' = "done"
    /\ UNCHANGED <<df_in, interval_size, exercise_thresholds, by_day, window,
                   det, seen, event>>

NextMissing == PercentMissing

SpecMissing == InitMissing /\ [][NextMissing]_vars

---------------------------------------------------------------------------
(* all_metrics, for frames with an ID column (id_bool true).  The columns  *)
(* carried are those of hypoglycemic_episodes, percent_missing, the        *)
(* minimum and maximum of glycemic_variability and the mean of             *)
(* average_glucose as the pair (sum, count).                               *)

\* df['time'].dt.date.astype(str): the calendar date of an instant
DateStr(t) == IF t \div 1440 = 0 THEN <<"2020-01-01">> ELSE <<"2020-01-02">>

\* df['ID'] + '$' + df['time'].dt.date.astype(str)
DayKey(id, t) == id \o <<"$">> \o DateStr(t)

\* lines 46-47: with by_day, the date is appended to every row's ID
add_date_to_id(frame, byday) ==
    IF byday
    THEN [i \in DOMAIN frame |->
            [frame[i] EXCEPT !.ID = DayKey(frame[i].ID, frame[i].time.t)]]
    ELSE frame

\* str.split('$', n=1, expand=True): the text before the first '$' and the
\* text after it
SplitFirst(key) ==
    LET i == SetMin({j \in DOMAIN key : key[j] = "$"})
    IN  [ID |-> SubSeq(key, 1, i - 1), date |-> SubSeq(key, i + 1, Len(key))]

RECURSIVE SumGlc(_)
SumGlc(rows) == IF rows = <<>> THEN 0 ELSE rows[1].glc + SumGlc(Tail(rows))

\* glycemic_variability: min glucose and max glucose of one ID's readings
glycemic_variability(frame) ==
    [id \in IDs(frame) |->
       LET g == {Group(frame, id)[i].glc : i \in DOMAIN Group(frame, id)}
       IN  [min_glucose |-> SetMin(g), max_glucose |-> SetMax(g)]]

\* average_glucose: the mean of one ID's readings, as (sum, count)
average_glucose(frame) ==
    [id \in IDs(frame) |->
       [sum |-> SumGlc(Group(frame, id)), count |-> Len(Group(frame, id))]]

\* lines 53-81: the metric frames merged on ID (every frame has one row per
\* ID of df), the ID split back when by_day, and the level-1 count added.
merged_metrics(frame, interval, start_time, end_time, byday, exercise) ==
    LET hypos == hypoglycemic_episodes(frame, interval, FALSE, FALSE).rows
        hypos_ex == hypoglycemic_episodes(frame, interval, FALSE, TRUE).rows
        glc_var == glycemic_variability(frame)
        avg == average_glucose(frame)
        perc_missing == percent_missing(frame, interval, start_time, end_time).rows
        columns(k) ==
            [number_hypos |-> hypos[k].number_hypos,
             number_lv2_hypos |-> hypos[k].number_lv2_hypos,
             total_time |-> hypos[k].total_time,
             number_hypos_ex |-> IF exercise THEN hypos_ex[k].number_hypos ELSE None,
             number_lv1_hypos |-> IF exercise THEN None
                                  ELSE hypos[k].number_hypos - hypos[k].number_lv2_hypos,
             min_glucose |-> glc_var[k].min_glucose,
             max_glucose |-> glc_var[k].max_glucose,
             avg_glucose |-> avg[k],
             percent_missing |-> perc_missing[k]]
    IN  [k \in IDs(frame) |->
           [ID |-> IF byday THEN SplitFirst(k).ID ELSE k,
            date |-> IF byday THEN SplitFirst(k).date ELSE <<>>,
            metrics |-> columns(k)]]

\* all_metrics: what it returns, or the error it raises.  Line 41 parses
\* the whole time column before anything else.
all_metrics(frame, interval, start_time, end_time, byday, exercise) ==
    IF HasBadTime(frame)
    THEN [error |-> "ParseError", rows |-> <<>>]
    ELSE [error |-> "none",
          rows |-> merged_metrics(add_date_to_id(to_datetime(frame), byday),
                                  interval, start_time, end_time, byday, exercise)]

\* all_metrics: what the call leaves in the caller's frame (lines 41, 47).
all_metrics_frame(frame, byday) ==
    IF HasBadTime(frame) THEN frame
    ELSE add_date_to_id(to_datetime(frame), byday)

---------------------------------------------------------------------------
(* The metrics called on a caller's frame.                                 *)

\* subject IDs: two plain ones and one that holds the '$' character
IdStrings == {<<"a">>, <<"b">>, <<"a", "$", "b">>}

\* the time column's entries: Timestamps on two days, a parseable string
\* and an unparseable one
Times == {Timestamp(0), Timestamp(1440), TimeString(5), [repr |-> "bad", t |-> 0]}

FrameRows == {Row(id, time, glc) : id \in IdStrings, time \in Times, glc \in {28, 45}}

Init ==
    /\ df \in UNION {[1..n -> FrameRows] : n \in 1..MaxRows}
    /\ df_in = df
    /\ interval_size \in Intervals
    /\ exercise_thresholds \in BOOLEAN
    /\ by_day \in BOOLEAN
    /\ window = <<None, None>>
    /\ det = DetInit
    /\ seen = {}
    /\ event = NoEvent
    /\ result = <<>>
    /\ pc = "ready"

\* all_metrics(df, interval_size, by_day=by_day, exercise_thresholds=...)
AllMetrics ==
    /\ pc = "ready"
    /\ result' = all_metrics(df, interval_size, window[1], window[2], by_day,
                             exercise_thresholds)
    /\ df' = all_metrics_frame(df, by_day)
    /\ pc' = "all_metrics"
    /\ UNCHANGED <<df_in, interval_size, exercise_thresholds, by_day, window,
                   det, seen, event>>

\* hypoglycemic_episodes(df, interval_size) called on its own
HypoglycemicEpisodes ==
    /\ pc = "ready"
    /\ result' = hypoglycemic_episodes(df, interval_size, FALSE, exercise_thresholds)
    /\ pc' = "hypoglycemic_episodes"
    /\ UNCHANGED <<df, df_in, interval_size, exercise_thresholds, by_day, window,
                   det, seen, event>>

\* percent_missing(df, interval_size) called on its own
PercentMissingAlone ==
    /\ pc = "ready"
    /\ result' = percent_missing(df, interval_size, window[1], window[2])
    /\ df' = percent_missing_frame(df)
    /\ pc' = "percent_missing"
    /\ UNCHANGED <<df_in, interval_size, exercise_thresholds, by_day, window,
                   det, seen, event>>

Next == AllMetrics \/ HypoglycemicEpisodes \/ PercentMissingAlone

Spec == Init /\ [][Next]_vars

---------------------------------------------------------------------------
(* Properties of the detector, over every series SpecDetector feeds it.    *)

Indices(seq) == DOMAIN seq

\* a and b are consecutive samples of the series read so far
Consecutive(a, b) ==
    /\ a \in seen /\ b \in seen /\ a < b
    /\ \A c \in seen : ~(a < c /\ c < b)

\* C1: every reported Episode lasts at least 15 minutes, and an excursion
\* that ended after less than 15 minutes (closed by a sustained recovery or
\* cut off by the end of its Segment) is not among the reported Episodes.
C1_MinimumDuration ==
    /\ \A i \in Indices(result) : result[i].end - result[i].start >= 15
    /\ \A j \in Indices(event.closed) :
         event.closed[j].end - event.closed[j].start < 15
         => \A i \in Indices(result) : result[i].start # event.closed[j].start

\* C1 witness: after one Episode was reported, a later excursion of 5 or 10
\* minutes was closed by a sustained recovery and left out of the report.
C1_ShortExcursionDropped ==
    /\ event.name = "close"
    /\ Len(event.closed) = 1
    /\ event.closed[1].end - event.closed[1].start \in {5, 10}
    /\ Len(result) >= 1

\* C3: the reported Episodes are time-ordered and do not overlap, and each
\* has start < end.
C3_OrderedNonOverlapping ==
    \A i \in Indices(result) :
      /\ result[i].start < result[i].end
      /\ i + 1 \in Indices(result) => result[i].end <= result[i + 1].start

\* C3 witness: a series for which two Episodes are reported.
C3_TwoEpisodes == pc = "done" /\ Len(result) = 2

\* C9: no reported Episode spans a Segment boundary: consecutive samples
\* between its start and end are at most interval * tolerance apart, its
\* start and end are sample times, an episode open at a gap is finalized or
\* discarded there, and a low sample after the gap opens a new episode.
C9_NoCrossSegmentEpisode ==
    /\ \A i \in Indices(result) :
         /\ result[i].start \in seen /\ result[i].end \in seen
         /\ \A a, b \in seen :
              (Consecutive(a, b) /\ result[i].start <= a /\ b <= result[i].end)
              => b - a <= interval_size * tolerance
    /\ det.mode = "IN_EPISODE" =>
         \A a, b \in seen :
           (Consecutive(a, b) /\ det.start <= a) => b - a <= interval_size * tolerance
    /\ event.name = "gap_open" =>
         /\ det.mode = "IN_EPISODE" /\ det.start = det.last
         /\ \A j \in Indices(event.closed) : event.closed[j].end < det.start

\* C9 witness: an episode open when its Segment ended was reported with the
\* Segment's last sample as its end, and the low sample after the gap
\* opened a new episode.
C9_ClosedAtSegmentEnd ==
    /\ event.name = "gap_open"
    /\ Len(event.closed) = 1
    /\ Len(result) >= 1
    /\ result[Len(result)].start = event.closed[1].start
    /\ result[Len(result)].end = event.closed[1].end
    /\ \E a \in seen : Consecutive(a, det.start) /\ a = event.closed[1].end

---------------------------------------------------------------------------
(* Properties of hypoglycemic_episodes, over the frames of SpecEpisodes.   *)

\* subject a's readings in time order, as [t, glc] pairs
SeriesA == Validate(Group(df, IdA))

\* whether no two consecutive samples are further apart than the interval
SingleSegment(series) ==
    \A i \in 1..(Len(series) - 1) :
      series[i + 1].time.t - series[i].time.t <= interval_size * tolerance

IsLow(series, i) == series[i].glc < Threshold(exercise_thresholds)

\* The maximal runs of below-threshold samples of a series, in order.  A run
\* extends from its first sample to the first sample after it, or to the
\* last sample of the series when the run reaches it.
LowRuns(series) ==
    LET n == Len(series)
        first == {i \in 1..n : IsLow(series, i) /\ (i = 1 \/ ~IsLow(series, i - 1))}
        stop(i) == IF \E j \in (i + 1)..n : ~IsLow(series, j)
                   THEN series[CHOOSE j \in (i + 1)..n :
                                 /\ ~IsLow(series, j)
                                 /\ \A k \in (i + 1)..(j - 1) : IsLow(series, k)].time.t
                   ELSE series[n].time.t
        runs[i \in 0..n] ==
            IF i = 0 THEN <<>>
            ELSE IF i \in first
            THEN Append(runs[i - 1], [start |-> series[i].time.t, end |-> stop(i)])
            ELSE runs[i - 1]
    IN  runs[n]

Spans(eps) == [i \in DOMAIN eps |-> [start |-> eps[i].start, end |-> eps[i].end]]

LongEnough(span) == span.end - span.start >= 15

\* C2: in one Segment, two below-threshold runs separated by an above run
\* shorter than 15 minutes are reported as one Episode from the start of the
\* first to the end of the second; separated by an above run of 15 minutes
\* or more, each run is reported on its own (two Episodes when both last 15
\* minutes).
C2_Bridging ==
    (pc = "breakdown" /\ SingleSegment(SeriesA) /\ Len(LowRuns(SeriesA)) = 2) =>
      LET runs == LowRuns(SeriesA)
          both == [start |-> runs[1].start, end |-> runs[2].end]
          reported == Spans(result.rows[IdA])
      IN  IF runs[2].start - runs[1].end < 15
          THEN reported = SelectSeq(<<both>>, LongEnough)
          ELSE /\ reported = SelectSeq(runs, LongEnough)
               /\ (LongEnough(runs[1]) /\ LongEnough(runs[2])) => Len(reported) = 2

\* C2 witness: two 15-minute runs below 3.9 separated by 10 minutes above it
\* were reported as one Episode of 40 minutes.
C2_MergedExample ==
    /\ pc = "breakdown"
    /\ ~exercise_thresholds
    /\ [i \in DOMAIN SeriesA |-> <<SeriesA[i].time.t, SeriesA[i].glc>>]
         = << <<0, 35>>, <<5, 35>>, <<10, 35>>, <<15, 45>>, <<20, 45>>,
              <<25, 35>>, <<30, 35>>, <<35, 35>>, <<40, 45>> >>
    /\ IdB \in IDs(df)
    /\ Spans(result.rows[IdA]) = << [start |-> 0, end |-> 40] >>

\* C4: six samples every 5 minutes with readings 4.5, 3.5, 3.5, 2.8, 3.5,
\* 4.5 and the standard thresholds give exactly one Episode: it starts at
\* the second sample, lasts 20 minutes, has minimum 2.8 and is Level2.
C4_Scenario ==
    (/\ pc = "breakdown"
     /\ ~exercise_thresholds
     /\ [i \in DOMAIN SeriesA |-> <<SeriesA[i].time.t, SeriesA[i].glc>>]
          = << <<0, 45>>, <<5, 35>>, <<10, 35>>, <<15, 28>>, <<20, 35>>, <<25, 45>> >>)
    => /\ Len(result.rows[IdA]) = 1
       /\ result.rows[IdA][1].start = 5
       /\ result.rows[IdA][1].end - result.rows[IdA][1].start = 20
       /\ result.rows[IdA][1].min_value = 28
       /\ result.rows[IdA][1].severity = "Level2"

\* C4 witness: the scenario's frame, with a second subject's rows in it and
\* its rows in reverse order, after the call.
C4_ScenarioRun ==
    /\ pc = "breakdown"
    /\ ~exercise_thresholds
    /\ df = Reverse(Regular(IdA, <<45, 35, 35, 28, 35, 45>>, 5) \o OtherSubject(6))
    /\ Len(result.rows[IdA]) = 1

---------------------------------------------------------------------------
(* Properties of percent_missing, over the frames of SpecMissing.          *)

\* the window of subject id: its missing bounds come from id's readings
WindowStart(id) ==
    IF window[1] = None THEN SetMin(ReadingTimes(Group(df, id))) ELSE window[1]

WindowEnd(id) ==
    IF window[2] = None THEN SetMax(ReadingTimes(Group(df, id))) ELSE window[2]

LastReading(id) == SetMax(ReadingTimes(Group(df, id)))

\* the slots [start + k * interval, start + (k + 1) * interval), k < n, of
\* subject id's window that hold one of id's readings
OccupiedSlots(id, n) ==
    {k \in 0..(n - 1) :
       \E t \in ReadingTimes(Group(df, id)) :
         /\ WindowStart(id) + k * interval_size <= t
         /\ t < WindowStart(id) + (k + 1) * interval_size}

\* n = ceil(duration / interval): the least n with n * interval >= duration
IsCeil(n, duration) ==
    /\ n * interval_size >= duration
    /\ (n - 1) * interval_size < duration

\* a / b <= c / d for positive b and d
FractionLeq(a, b, c, d) == a * d <= c * b

PercentMissingAsSpecified(id) ==
    LET r == result.rows[id]
    IN  /\ IsCeil(r.total, WindowEnd(id) - WindowStart(id))
        /\ r.total - r.missing = Cardinality(OccupiedSlots(id, r.total))
        /\ r.total > 0 /\ 0 <= r.missing /\ r.missing <= r.total
        /\ (/\ interval_size = 5 /\ window = <<None, None>>
            /\ WindowEnd(id) - WindowStart(id) = 240
            /\ Cardinality(OccupiedSlots(id, 48)) = 36)
           => 4 * r.missing = r.total

---------------------------------------------------------------------------
(* Properties of all_metrics, over the frames of Spec.                     *)

\* C7: a metric call leaves the caller's frame as it was passed: the same
\* rows with the same 'time', 'glc' and 'ID' values.
C7_InputUnchanged == pc # "ready" => df = df_in

\* the output rows of all_metrics that belong to subject id's rows
Alone(id) ==
    all_metrics(Group(df_in, id), interval_size, window[1], window[2], by_day,
                exercise_thresholds)

\* C8: when one subject's rows fail, every subject whose rows do not fail
\* still has its result rows, equal to those it gets when processed alone.
C8_FailureIsolated ==
    pc = "all_metrics" =>
      \A id \in IDs(df_in) :
        Alone(id).error = "none" =>
          \A k \in DOMAIN Alone(id).rows :
            /\ k \in DOMAIN result.rows
            /\ result.rows[k] = Alone(id).rows[k]

\* the (subject, date) pairs of the frame passed by the caller
SubjectDays ==
    {<<df_in[i].ID, DateStr(df_in[i].time.t)>> : i \in DOMAIN df_in}

\* C10: with by_day and an ID column, every output row carries the ID of a
\* subject and the date of that subject's readings, and every (subject,
\* date) pair of the input has exactly one output row.
C10_KeyRoundTrip ==
    (pc = "all_metrics" /\ by_day /\ result.error = "none") =>
      /\ \A k \in DOMAIN result.rows :
           <<result.rows[k].ID, result.rows[k].date>> \in SubjectDays
      /\ \A sd \in SubjectDays :
           Cardinality({k \in DOMAIN result.rows :
                          <<result.rows[k].ID, result.rows[k].date>> = sd}) = 1

=============================================================================
